---- MODULE Spec2Model ----
(***************************************************************************)
(* A model of duckex's native layer (native/duckex/src/lib.rs): the        *)
(* DuckDBResource (one connection and one query cache, each behind its own *)
(* Mutex), the NIFs prepare / execute / close / begin / commit / rollback  *)
(* / status called from concurrent scheduler threads, and the conversion   *)
(* of host terms to engine values.                                         *)
(*                                                                         *)
(* The engine (the duckdb crate) is an external collaborator: each call    *)
(* into it is a step whose outcome (accepted / rejected, ran / failed) is  *)
(* chosen nondeterministically.  cache::Cache lives in cache.rs, which is  *)
(* not part of the sources at hand; it is modelled from the written        *)
(* contract of the Registry (withCapacity / store / getRef / remove).      *)
(***************************************************************************)
EXTENDS Integers, Sequences, FiniteSets, TLC

(***************************************************************************)
(* Bounds of the model.                                                    *)
(***************************************************************************)
\* cache_size handed to new(): the number of slots of the cache.
Capacity == 2
\* longest parameter vector handed to execute.
MaxParams == 2

\* the scheduler threads calling into the resource.
Threads == {"t1", "t2"}
NoThread == "none"

\* query texts handed to prepare.
Queries == {"SELECT 1", "SELECT 2"}

\* stmt_id values handed to execute and close: every slot index and one
\* index past the end of the cache (an unknown handle such as 999).
Handles == 0..Capacity

(***************************************************************************)
(* Option<T>.                                                              *)
(***************************************************************************)
None == [tag |-> "None"]
Some(x) == [tag |-> "Some", val |-> x]

(***************************************************************************)
(* Integers of the host and of the engine.  The values of interest reach   *)
(* 2^64 - 1, past 32-bit integers, so an integer n is held as three       *)
(* digits: n = top * 2^62 + mid * 2^31 + low with 0 <= mid, low < 2^31     *)
(* (top carries the sign).  Number(i) holds a small integer i, SmallOf(n)  *)
(* gives it back.                                                          *)
(***************************************************************************)
\* 2^31 - 1, the largest digit.
DigitMax == 2 * 1073741823 + 1

Number(i) ==
    IF i >= 0
    THEN [top |-> 0, mid |-> 0, low |-> i]
    ELSE [top |-> 0 - 1, mid |-> DigitMax, low |-> DigitMax + (i + 1)]

SmallOf(n) ==
    CASE n.top = 0 /\ n.mid = 0            -> n.low
      [] n.top = 0 - 1 /\ n.mid = DigitMax -> (n.low - DigitMax) - 1

NumLess(a, b) ==
    \/ a.top < b.top
    \/ a.top = b.top /\ a.mid < b.mid
    \/ a.top = b.top /\ a.mid = b.mid /\ a.low < b.low

\* the ranges of i64, i32 and u32.
fits_i64(n) == n.top \in (0 - 2)..1
fits_i32(n) == (n.top = 0 /\ n.mid = 0) \/ (n.top = 0 - 1 /\ n.mid = DigitMax)
fits_u32(n) == n.top = 0 /\ n.mid <= 1

\* `u as i64` on a u64: the same 64 bits read as two's complement, that is
\* the representative of u modulo 2^64 (four units of top) in the range of i64.
as_i64(u) == [u EXCEPT !.top = ((u.top + 2) % 4) - 2]

(***************************************************************************)
(* cache::Cache<String> (cache.rs is not among the sources; modelled from  *)
(* the Registry contract: n slots, all free; store takes the lowest free   *)
(* index or reports exhaustion; get_ref reads an occupied slot; remove     *)
(* frees an occupied slot and is a no-op otherwise).                       *)
(***************************************************************************)
Min(S) == CHOOSE x \in S : \A y \in S : x <= y

with_capacity(n) ==
    [slots |-> [i \in 0..(n - 1) |-> None], free |-> 0..(n - 1)]

store(cache, text) ==
    IF cache.free = {}
    THEN [cache |-> cache, id |-> None]
    ELSE LET i == Min(cache.free)
         IN  [cache |-> [slots |-> [cache.slots EXCEPT ![i] = Some(text)],
                         free  |-> cache.free \ {i}],
              id |-> Some(i)]

get_ref(cache, index) ==
    IF index \in DOMAIN cache.slots THEN cache.slots[index] ELSE None

remove(cache, index) ==
    IF index \in DOMAIN cache.slots /\ cache.slots[index] # None
    THEN [slots |-> [cache.slots EXCEPT ![index] = None],
          free  |-> cache.free \cup {index}]
    ELSE cache

\* the handles that are live: indices of occupied slots.
Live(cache) == {i \in DOMAIN cache.slots : cache.slots[i] # None}

(***************************************************************************)
(* Host terms.  A term is its kind and its payload; a map's payload is its *)
(* atom-keyed entries (map_data: key name -> term).                        *)
(***************************************************************************)
AtomTerm(name)  == [kind |-> "atom", atom |-> name]
IntegerTerm(n)  == [kind |-> "integer", int |-> n]
FloatTerm(x)    == [kind |-> "float", float |-> x]
BinaryTerm(s)   == [kind |-> "binary", bin |-> s]
TupleTerm(xs)   == [kind |-> "tuple", elems |-> xs]
ListTerm(xs)    == [kind |-> "list", items |-> xs]
MapTerm(f)      == [kind |-> "map", entries |-> f]

DateTimeTerm(y, mo, d, h, mi, s, us) ==
    MapTerm(("__struct__" :> AtomTerm("Elixir.DateTime")) @@
            ("year" :> IntegerTerm(Number(y))) @@
            ("month" :> IntegerTerm(Number(mo))) @@
            ("day" :> IntegerTerm(Number(d))) @@
            ("hour" :> IntegerTerm(Number(h))) @@
            ("minute" :> IntegerTerm(Number(mi))) @@
            ("second" :> IntegerTerm(Number(s))) @@
            ("microsecond" :> TupleTerm(<<IntegerTerm(Number(us)),
                                          IntegerTerm(Number(6))>>)))

DateTerm(y, mo, d) ==
    MapTerm(("__struct__" :> AtomTerm("Elixir.Date")) @@
            ("year" :> IntegerTerm(Number(y))) @@
            ("month" :> IntegerTerm(Number(mo))) @@
            ("day" :> IntegerTerm(Number(d))))

\* term.decode::<i64>() / ::<i32>() / ::<u32>() / ::<(i64, u32)>() /
\* atom_to_string().  The decoded fields of a date go into the calendar
\* arithmetic as small integers (the terms drawn hold no u32 field of 2^31
\* or more and no microsecond count outside 32 bits).
decode_i64(t) ==
    IF t.kind = "integer" /\ fits_i64(t.int) THEN Some(t.int) ELSE None
decode_i32(t) ==
    IF t.kind = "integer" /\ fits_i32(t.int) THEN Some(SmallOf(t.int)) ELSE None
decode_u32(t) ==
    IF t.kind = "integer" /\ fits_u32(t.int) THEN Some(SmallOf(t.int)) ELSE None
decode_micro(t) ==
    IF /\ t.kind = "tuple"
       /\ Len(t.elems) = 2
       /\ decode_i64(t.elems[1]) # None
       /\ decode_u32(t.elems[2]) # None
    THEN Some(SmallOf(t.elems[1].int))
    ELSE None
atom_to_string(t) == IF t.kind = "atom" THEN Some(t.atom) ELSE None

\* map_data.get(key).and_then(|t| decode(t).ok())
MapGet(map_data, key, decode(_)) ==
    IF key \in DOMAIN map_data THEN decode(map_data[key]) ELSE None

(***************************************************************************)
(* Calendar arithmetic of term_to_duckdb_value.                            *)
(***************************************************************************)
\* a leap rule without the century exceptions (the Julian rule).
is_leap_EveryFourthYear(y) == y % 4 = 0

is_leap(y) == (y % 4 = 0 /\ y % 100 # 0) \/ (y % 400 = 0)

\* for y in 1970..year_val { days += 366 or 365 }: 366 for every leap year
\* of the range and 365 for every other (the range is empty when year_val
\* is 1970 or earlier).
days_for_years(first, year_val) ==
    LET years == first..(year_val - 1)
    IN  366 * Cardinality({y \in years : is_leap(y)})
        + 365 * Cardinality({y \in years : ~is_leap(y)})

days_in_month(year_val) ==
    <<31, IF is_leap(year_val) THEN 29 ELSE 28, 31, 30, 31, 30, 31, 31, 30, 31, 30, 31>>

\* for m in 1..month_val { days += days_in_month[(m - 1) as usize] }
RECURSIVE days_for_months(_, _, _)
days_for_months(m, month_val, year_val) ==
    IF m >= month_val THEN 0
    ELSE days_in_month(year_val)[m] + days_for_months(m + 1, month_val, year_val)

\* the indexing days_in_month[(m - 1) as usize] leaves the 12-entry table
\* (a panic in every build) when the loop reaches m = 13.
month_index_panics(month_val) == month_val - 1 > Len(days_in_month(0))

\* day_val - 1 on a u32: with day_val = 0 the subtraction overflows, which
\* panics in a build with overflow checks and wraps to 2^32 - 1 without.
day_underflows(day_val) == day_val = 0

\* total_microseconds, split because it does not fit 32-bit integers:
\* the value is (days + 2^32 * wraps) * 86400 * 10^6 + seconds * 10^6 + micros
\* (modulo 2^64 when wraps is 1).
total_microseconds(year_val, month_val, day_val, hour_val, minute_val, second_val, microsecond_val) ==
    [days    |-> days_for_years(1970, year_val)
                 + days_for_months(1, month_val, year_val)
                 + (day_val - 1),
     wraps   |-> IF day_underflows(day_val) THEN 1 ELSE 0,
     seconds |-> hour_val * 3600 + minute_val * 60 + second_val,
     micros  |-> microsecond_val]

\* format!("{:04}-{:02}-{:02}", year_val, month_val, day_val)
Pad(n, width) ==
    LET s == ToString(IF n < 0 THEN 0 - n ELSE n)
        w == IF n < 0 THEN width - 1 ELSE width
        zeros == [k \in 0..3 |-> CASE k = 0 -> "" [] k = 1 -> "0" [] k = 2 -> "00" [] OTHER -> "000"]
        missing == IF Len(s) >= w THEN 0 ELSE w - Len(s)
    IN  (IF n < 0 THEN "-" ELSE "") \o zeros[missing] \o s

date_string(year_val, month_val, day_val) ==
    Pad(year_val, 4) \o "-" \o Pad(month_val, 2) \o "-" \o Pad(day_val, 2)

(***************************************************************************)
(* term_to_duckdb_value: the set of outcomes a build can produce for a     *)
(* term: Ok(value), Err(message) or a panic.                               *)
(***************************************************************************)
Ok(v)    == [tag |-> "Ok", val |-> v]
Err(m)   == [tag |-> "Err", msg |-> m]
Panic    == [tag |-> "Panic"]

TextValue(s)      == [type |-> "Text", text |-> s]
BigIntValue(n)    == [type |-> "BigInt", int |-> n]
DoubleValue(x)    == [type |-> "Double", float |-> x]
BooleanValue(b)   == [type |-> "Boolean", bool |-> b]
NullValue         == [type |-> "Null"]
TimestampValue(m) == [type |-> "Timestamp", unit |-> "Microsecond", micros |-> m]

\* the other kinds of Value, which only the engine produces (result cells).
\* A temporal cell holds a count in its unit; a Struct and a Map hold their
\* (key, value) pairs in order.
TinyIntValue(n)    == [type |-> "TinyInt", int |-> n]
SmallIntValue(n)   == [type |-> "SmallInt", int |-> n]
IntValue(n)        == [type |-> "Int", int |-> n]
UTinyIntValue(n)   == [type |-> "UTinyInt", int |-> n]
USmallIntValue(n)  == [type |-> "USmallInt", int |-> n]
UIntValue(n)       == [type |-> "UInt", int |-> n]
UBigIntValue(n)    == [type |-> "UBigInt", int |-> n]
HugeIntValue(n)    == [type |-> "HugeInt", int |-> n]
FloatValue(x)      == [type |-> "Float", float |-> x]
TimestampCell(u, c) == [type |-> "Timestamp", unit |-> u, count |-> c]
Time64Value(u, c)  == [type |-> "Time64", unit |-> u, count |-> c]
Date32Value(days)  == [type |-> "Date32", count |-> days]
BlobValue(b)       == [type |-> "Blob", bytes |-> b]
EnumValue(label)   == [type |-> "Enum", text |-> label]
ListValue(vec)     == [type |-> "List", vec |-> vec]
ArrayValue(vec)    == [type |-> "Array", vec |-> vec]
StructValue(ps)    == [type |-> "Struct", pairs |-> ps]
MapValue(es)       == [type |-> "Map", entries |-> es]
UnionValue(inner)  == [type |-> "Union", inner |-> inner]

\* the type_info chain of the final error.
type_info(term) ==
    CASE term.kind \in {"integer", "float"} -> "number (but failed to decode as i64 or f64)"
      [] term.kind = "map"    -> "map (unsupported structure)"
      [] term.kind = "list"   -> "list (not yet supported)"
      [] term.kind = "atom"   -> "atom (not nil)"
      [] term.kind = "binary" -> "binary (failed to decode as string)"
      [] term.kind = "tuple"  -> "tuple (not supported)"
      [] OTHER                -> "unknown type"

unsupported(term) == Err("Unsupported parameter type: " \o type_info(term))

\* the scalar cases, reached when the map case did not return.
scalar_to_duckdb_value(term) ==
    CASE term.kind = "integer" /\ decode_i64(term) # None
                               -> {Ok(BigIntValue(decode_i64(term).val))}
      [] term.kind = "float"   -> {Ok(DoubleValue(term.float))}
      [] term.kind = "binary"  -> {Ok(TextValue(term.bin))}
      [] term.kind = "atom" /\ term.atom \in {"true", "false"}
                               -> {Ok(BooleanValue(term.atom = "true"))}
      [] term.kind = "atom" /\ term.atom = "nil" -> {Ok(NullValue)}
      [] OTHER                 -> {unsupported(term)}

datetime_to_duckdb_value(term, map_data) ==
    LET year   == MapGet(map_data, "year", decode_i32)
        month  == MapGet(map_data, "month", decode_u32)
        day    == MapGet(map_data, "day", decode_u32)
        hour   == MapGet(map_data, "hour", decode_u32)
        minute == MapGet(map_data, "minute", decode_u32)
        second == MapGet(map_data, "second", decode_u32)
        micro  == MapGet(map_data, "microsecond", decode_micro)
    IN  IF None \in {year, month, day, hour, minute, second, micro}
        THEN scalar_to_duckdb_value(term)
        ELSE IF month_index_panics(month.val)
        THEN {Panic}
        ELSE LET ts == Ok(TimestampValue(total_microseconds(
                          year.val, month.val, day.val, hour.val,
                          minute.val, second.val, micro.val)))
             IN  IF day_underflows(day.val) THEN {Panic, ts} ELSE {ts}

date_to_duckdb_value(term, map_data) ==
    LET year  == MapGet(map_data, "year", decode_i32)
        month == MapGet(map_data, "month", decode_u32)
        day   == MapGet(map_data, "day", decode_u32)
    IN  IF None \in {year, month, day}
        THEN scalar_to_duckdb_value(term)
        ELSE {Ok(TextValue(date_string(year.val, month.val, day.val)))}

term_to_duckdb_value(term) ==
    IF term.kind = "map"
    THEN LET map_data == term.entries
             module_str == MapGet(map_data, "__struct__", atom_to_string)
         IN  IF module_str = Some("Elixir.Date")
             THEN date_to_duckdb_value(term, map_data)
             ELSE IF module_str = Some("Elixir.DateTime")
             THEN datetime_to_duckdb_value(term, map_data)
             ELSE scalar_to_duckdb_value(term)
    ELSE scalar_to_duckdb_value(term)

\* a conversion loop that does not stop at the first error: it converts every
\* parameter and reports the last error it met.
RECURSIVE collect_params_ReportsLast(_)
collect_params_ReportsLast(params) ==
    IF params = <<>> THEN {Ok(<<>>)}
    ELSE UNION {
           {IF rest.tag # "Ok" THEN rest
            ELSE IF first.tag = "Ok" THEN Ok(<<first.val>> \o rest.val)
            ELSE first :
               rest \in collect_params_ReportsLast(Tail(params))} :
           first \in term_to_duckdb_value(Head(params))}

\* params.into_iter().map(term_to_duckdb_value).collect::<Result<Vec<_>, _>>():
\* left to right, stopping at the first Err (or panic).
RECURSIVE collect_params(_)
collect_params(params) ==
    IF params = <<>> THEN {Ok(<<>>)}
    ELSE UNION {
           IF first.tag = "Ok"
           THEN {IF rest.tag = "Ok" THEN Ok(<<first.val>> \o rest.val) ELSE rest :
                    rest \in collect_params(Tail(params))}
           ELSE {first} :
           first \in term_to_duckdb_value(Head(params))}

\* the terms a caller binds in this model: a supported scalar, the two
\* nested containers, and a DateTime whose month runs past the month table.
ParamTerms ==
    {IntegerTerm(Number(7)),
     ListTerm(<<>>),
     MapTerm("a" :> IntegerTerm(Number(1))),
     DateTimeTerm(2000, 14, 1, 0, 0, 0, 0)}

ParamVectors == UNION {[1..n -> ParamTerms] : n \in 0..MaxParams}

(***************************************************************************)
(* Engine values on the way out: duckdb_value_to_term.                     *)
(***************************************************************************)
\* general_purpose::STANDARD.encode(b): base64 with padding, on a sequence
\* of bytes.
Base64Alphabet ==
    <<"A", "B", "C", "D", "E", "F", "G", "H", "I", "J", "K", "L", "M",
      "N", "O", "P", "Q", "R", "S", "T", "U", "V", "W", "X", "Y", "Z",
      "a", "b", "c", "d", "e", "f", "g", "h", "i", "j", "k", "l", "m",
      "n", "o", "p", "q", "r", "s", "t", "u", "v", "w", "x", "y", "z",
      "0", "1", "2", "3", "4", "5", "6", "7", "8", "9", "+", "/">>

Base64Char(i) == Base64Alphabet[i + 1]

RECURSIVE base64_encode(_)
base64_encode(b) ==
    CASE Len(b) = 0 -> ""
      [] Len(b) = 1 ->
           Base64Char(b[1] \div 4) \o Base64Char((b[1] % 4) * 16) \o "=="
      [] Len(b) = 2 ->
           Base64Char(b[1] \div 4)
           \o Base64Char((b[1] % 4) * 16 + b[2] \div 16)
           \o Base64Char((b[2] % 16) * 4) \o "="
      [] OTHER ->
           Base64Char(b[1] \div 4)
           \o Base64Char((b[1] % 4) * 16 + b[2] \div 16)
           \o Base64Char((b[2] % 16) * 4 + b[3] \div 64)
           \o Base64Char(b[3] % 64)
           \o base64_encode(SubSeq(b, 4, Len(b)))

\* TimeUnit::to_micros(value), on a small count.
to_micros(unit, count) ==
    CASE unit = "Second"      -> count * 1000000
      [] unit = "Millisecond" -> count * 1000
      [] unit = "Microsecond" -> count
      [] unit = "Nanosecond"  -> count \div 1000

\* format!("{:?}", value): the debug rendering of a value.
debug_string(value) == ToString(value)

\* duckdb_value_to_string(value), the key of a Map entry as text.
duckdb_value_to_string(value) ==
    CASE value.type = "Text" -> value.text
      [] value.type = "Blob" -> base64_encode(value.bytes)
      [] OTHER               -> debug_string(value)

\* a cell conversion that hands a boolean to the host as the integer 0 or 1.
RECURSIVE duckdb_value_to_term_BooleanAsInteger(_)
duckdb_value_to_term_BooleanAsInteger(value) ==
    CASE value.type = "Null"    -> AtomTerm("nil")
      [] value.type = "Boolean" -> IntegerTerm(Number(IF value.bool THEN 1 ELSE 0))
      [] value.type \in {"TinyInt", "SmallInt", "Int", "BigInt",
                         "UTinyInt", "USmallInt", "UInt"}
                                -> IntegerTerm(value.int)
      [] value.type = "UBigInt" -> IntegerTerm(as_i64(value.int))
      [] value.type \in {"Float", "Double"} -> FloatTerm(value.float)
      [] value.type = "Text"    -> BinaryTerm(value.text)
      [] OTHER                  -> BinaryTerm(debug_string(value))

\* a cell conversion that hands UBigInt to the host with its own numeric
\* value, as it does the narrower unsigned widths.
RECURSIVE duckdb_value_to_term_UBigIntAsIs(_)
duckdb_value_to_term_UBigIntAsIs(value) ==
    CASE value.type = "Null"    -> AtomTerm("nil")
      [] value.type = "Boolean" -> AtomTerm(IF value.bool THEN "true" ELSE "false")
      [] value.type \in {"TinyInt", "SmallInt", "Int", "BigInt",
                         "UTinyInt", "USmallInt", "UInt", "UBigInt"}
                                -> IntegerTerm(value.int)
      [] value.type \in {"Float", "Double"} -> FloatTerm(value.float)
      [] value.type = "Text"    -> BinaryTerm(value.text)
      [] OTHER                  -> BinaryTerm(debug_string(value))

RECURSIVE duckdb_value_to_term(_)
duckdb_value_to_term(value) ==
    CASE value.type = "Null"    -> AtomTerm("nil")
      [] value.type = "Boolean" -> AtomTerm(IF value.bool THEN "true" ELSE "false")
      [] value.type \in {"TinyInt", "SmallInt", "Int", "BigInt",
                         "UTinyInt", "USmallInt", "UInt"}
                                -> IntegerTerm(value.int)
      [] value.type = "UBigInt" -> IntegerTerm(as_i64(value.int))
      [] value.type \in {"Float", "Double"} -> FloatTerm(value.float)
      [] value.type \in {"Timestamp", "Time64"}
                                -> IntegerTerm(Number(to_micros(value.unit, value.count)))
      [] value.type = "Date32"  -> IntegerTerm(Number(value.count))
      [] value.type = "Text"    -> BinaryTerm(value.text)
      [] value.type = "Blob"    -> BinaryTerm(base64_encode(value.bytes))
      [] value.type \in {"List", "Array"}
                                -> ListTerm([i \in 1..Len(value.vec) |->
                                               duckdb_value_to_term(value.vec[i])])
      [] value.type = "Enum"    -> BinaryTerm(value.text)
      [] value.type = "Struct"  ->
           ListTerm([i \in 1..Len(value.pairs) |->
                       TupleTerm(<<BinaryTerm(value.pairs[i][1]),
                                   duckdb_value_to_term(value.pairs[i][2])>>)])
      [] value.type = "Map"     ->
           ListTerm([i \in 1..Len(value.entries) |->
                       TupleTerm(<<BinaryTerm(duckdb_value_to_string(value.entries[i][1])),
                                   duckdb_value_to_term(value.entries[i][2])>>)])
      [] value.type = "Union"   -> duckdb_value_to_term(value.inner)
      [] OTHER                  -> BinaryTerm(debug_string(value))

\* what the engine hands back for a statement that ran: the column names
\* and declared types of the statement and, per row, what row.get(i) answers
\* for i = 0, 1, ... below the column count (at and past the column count
\* it answers with an error): a value or an error.
EngineResults ==
    {[names |-> <<>>, types |-> <<>>, rows |-> <<>>],
     [names |-> <<"x">>, types |-> <<"INTEGER">>,
      rows  |-> <<<<Ok(BigIntValue(Number(7)))>>>>],
     [names |-> <<"x", "y">>, types |-> <<"INTEGER", "VARCHAR">>,
      rows  |-> <<<<Ok(BigIntValue(Number(7))), Ok(TextValue("a"))>>,
                  <<Ok(BigIntValue(Number(8))), Err("get")>>>>]}

\* (0..).map_while(|i| match row.get::<_, Value>(i) { Ok(val) => Some(Ok(val)),
\* Err(_) => None }).collect(): the cells of a row up to the first index
\* whose read fails.
map_while_get(gets) ==
    LET failed == {i \in 1..Len(gets) : gets[i].tag # "Ok"}
        stop   == IF failed = {} THEN Len(gets) + 1 ELSE Min(failed)
    IN  [i \in 1..(stop - 1) |-> gets[i].val]

\* DuckexResult { columns, rows, num_rows }
DuckexResult(columns, rows, num_rows) ==
    [columns |-> columns, rows |-> rows, num_rows |-> num_rows]

(***************************************************************************)
(* State.                                                                  *)
(*   queries          resource.queries: the cache of query texts           *)
(*   connLock         the thread holding the guard of resource.conn        *)
(*   queriesLock      the thread holding the guard of resource.queries     *)
(*   connPoisoned     resource.conn's Mutex is poisoned                    *)
(*   queriesPoisoned  resource.queries' Mutex is poisoned                  *)
(*   call             per thread, the NIF call it is in: the NIF, its      *)
(*                    arguments, its position, its locals and its result,  *)
(*                    and a record of what the call did so far (the engine *)
(*                    calls it made, the guards it acquired, what the      *)
(*                    cache would have answered when it took each guard)   *)
(***************************************************************************)
VARIABLES queries, connLock, queriesLock, connPoisoned, queriesPoisoned, call

vars == <<queries, connLock, queriesLock, connPoisoned, queriesPoisoned, call>>

(***************************************************************************)
(* The two conversions taken on their own, on one datum at a time:         *)
(*   cell   an engine Value read from a result row, if any                 *)
(*   host   a host term: the cell converted, or a parameter handed in      *)
(*   bound  what term_to_duckdb_value made of the host term                *)
(* A resource in use converts nothing here: the three stay None.           *)
(***************************************************************************)
VARIABLES cell, host, bound

conv == <<cell, host, bound>>

\* the error of Mutex::lock on a poisoned mutex, as a string.
PoisonError == "poisoned lock: another task failed inside"

\* what rustler hands the caller when the NIF panicked.
Raise == [tag |-> "Raise", msg |-> "nif_panicked"]

\* a thread that is in no call.
NoCall ==
    [op |-> "none", query |-> "", stmt_id |-> 0, pc |-> "idle",
     params |-> <<>>, text |-> None, result |-> None,
     engine |-> <<>>, guards |-> <<>>, atConn |-> None, atQueries |-> None]

\* entry into a NIF with its arguments.
Enter(o, q, id, entry) ==
    [NoCall EXCEPT !.op = o, !.query = q, !.stmt_id = id, !.pc = entry]

\* what the registry would answer to this call on the cache as it is now:
\* store's id for prepare, get_ref's text for execute.
RegistryAnswer(c) ==
    CASE c.op = "prepare" -> store(queries, c.query).id
      [] c.op = "execute" -> get_ref(queries, c.stmt_id)
      [] OTHER            -> None

\* a resource whose cache is allocated one slot larger than asked for.
new_OneSlotMore(cache_size) ==
    /\ queries = with_capacity(cache_size + 1)
    /\ connLock = NoThread
    /\ queriesLock = NoThread
    /\ connPoisoned = FALSE
    /\ queriesPoisoned = FALSE

\* new(":memory:", Some(cache_size)): both mutexes fresh, the cache empty.
new(cache_size) ==
    /\ queries = with_capacity(cache_size)
    /\ connLock = NoThread
    /\ queriesLock = NoThread
    /\ connPoisoned = FALSE
    /\ queriesPoisoned = FALSE

Init ==
    /\ new(Capacity)
    /\ call = [t \in Threads |-> NoCall]
    /\ cell = None
    /\ host = None
    /\ bound = None

(***************************************************************************)
(* Steps shared by the NIFs.                                               *)
(***************************************************************************)
\* the function returns res: its guards are dropped, the caller has res.
Return(t, res) ==
    /\ call' = [call EXCEPT ![t] = [@ EXCEPT !.pc = "done", !.result = res, !.params = <<>>]]
    /\ connLock' = IF connLock = t THEN NoThread ELSE connLock
    /\ queriesLock' = IF queriesLock = t THEN NoThread ELSE queriesLock

\* the function unwinds from a panic: every guard it holds is dropped while
\* panicking, which poisons its mutex; rustler turns the panic into a raise.
Unwind(t) ==
    /\ call' = [call EXCEPT ![t] = [@ EXCEPT !.pc = "done", !.result = Raise, !.params = <<>>]]
    /\ connPoisoned' = (connPoisoned \/ connLock = t)
    /\ queriesPoisoned' = (queriesPoisoned \/ queriesLock = t)
    /\ connLock' = IF connLock = t THEN NoThread ELSE connLock
    /\ queriesLock' = IF queriesLock = t THEN NoThread ELSE queriesLock

\* resource.conn.lock().map_err(|e| e.to_string())?
LockConn(t, next) ==
    /\ call[t].pc = "lock_conn"
    /\ connLock = NoThread
    /\ IF connPoisoned
       THEN /\ Return(t, Err(PoisonError))
       ELSE /\ connLock' = t
            /\ queriesLock' = queriesLock
            /\ call' = [call EXCEPT ![t] = [@ EXCEPT !.pc = next,
                           !.guards = Append(@, "conn"),
                           !.atConn = RegistryAnswer(call[t])]]
    /\ UNCHANGED <<queries, connPoisoned, queriesPoisoned>>

\* resource.queries.lock().map_err(|e| e.to_string())?
LockQueries(t, next) ==
    /\ call[t].pc = "lock_queries"
    /\ queriesLock = NoThread
    /\ IF queriesPoisoned
       THEN /\ Return(t, Err(PoisonError))
       ELSE /\ queriesLock' = t
            /\ connLock' = connLock
            /\ call' = [call EXCEPT ![t] = [@ EXCEPT !.pc = next,
                           !.guards = Append(@, "queries"),
                           !.atQueries = RegistryAnswer(call[t])]]
    /\ UNCHANGED <<queries, connPoisoned, queriesPoisoned>>

\* conn.prepare(text).map_err(|e| format!("SQL preparation error: {}", e))?:
\* the engine accepts the text or rejects it.
EnginePrepare(t, text, next) ==
    \E accepted \in BOOLEAN :
       IF accepted
       THEN /\ call' = [call EXCEPT ![t] = [@ EXCEPT !.pc = next,
                           !.text = Some(text),
                           !.engine = Append(@, "prepare")]]
            /\ UNCHANGED <<connLock, queriesLock>>
       ELSE /\ call' = [call EXCEPT ![t] = [@ EXCEPT !.pc = "done",
                           !.text = Some(text),
                           !.engine = Append(@, "prepare"),
                           !.result = Err("SQL preparation error")]]
            /\ connLock' = IF connLock = t THEN NoThread ELSE connLock
            /\ queriesLock' = IF queriesLock = t THEN NoThread ELSE queriesLock

Idle(t) == call[t].pc \in {"idle", "done"}

At(t, o, p) == call[t].op = o /\ call[t].pc = p

(***************************************************************************)
(* prepare(resource, query)                                                *)
(***************************************************************************)
PrepareCall(t) ==
    /\ Idle(t)
    /\ \E query \in Queries :
          call' = [call EXCEPT ![t] = Enter("prepare", query, 0, "lock_conn")]
    /\ UNCHANGED <<queries, connLock, queriesLock, connPoisoned, queriesPoisoned>>
    /\ UNCHANGED conv

PrepareLockConn(t) ==
    /\ call[t].op = "prepare"
    /\ LockConn(t, "lock_queries")
    /\ UNCHANGED conv

PrepareLockQueries(t) ==
    /\ call[t].op = "prepare"
    /\ LockQueries(t, "validate")
    /\ UNCHANGED conv

\* a prepare that stores the text before the engine has validated it.
PrepareValidate_StoresFirst(t) ==
    /\ At(t, "prepare", "validate")
    /\ EnginePrepare(t, call[t].query, "store")
    /\ queries' = store(queries, call[t].query).cache
    /\ UNCHANGED <<connPoisoned, queriesPoisoned>>
    /\ UNCHANGED conv

\* let _ = conn.prepare(&query).map_err(..)?
PrepareValidate(t) ==
    /\ At(t, "prepare", "validate")
    /\ EnginePrepare(t, call[t].query, "store")
    /\ UNCHANGED <<queries, connPoisoned, queriesPoisoned>>
    /\ UNCHANGED conv

\* a prepare that, finding no free slot, evicts the statement in slot 0 and
\* hands that slot out again instead of reporting exhaustion.
PrepareStore_Evicts(t) ==
    /\ At(t, "prepare", "store")
    /\ LET room   == IF queries.free = {} THEN remove(queries, 0) ELSE queries
           stored == store(room, call[t].query)
       IN  /\ queries' = stored.cache
           /\ Return(t, Ok(DuckexResult(<<<<"ref", "UInt32">>>>,
                                        <<<<stored.id.val>>>>, 1)))
    /\ UNCHANGED <<connPoisoned, queriesPoisoned>>
    /\ UNCHANGED conv

\* let id = queries.store(query).ok_or_else(|| "Exhausted ...")?; Ok(result)
PrepareStore(t) ==
    /\ At(t, "prepare", "store")
    /\ LET stored == store(queries, call[t].query)
       IN  /\ queries' = stored.cache
           /\ IF stored.id = None
              THEN Return(t, Err("Exhausted prepared statements cache"))
              ELSE Return(t, Ok(DuckexResult(<<<<"ref", "UInt32">>>>,
                                             <<<<stored.id.val>>>>, 1)))
    /\ UNCHANGED <<connPoisoned, queriesPoisoned>>
    /\ UNCHANGED conv

\* a prepare that takes the guard of the cache first and the guard of the
\* connection second.
prepare_RegistryGuardFirst(t) ==
    \/ /\ Idle(t)
       /\ \E query \in Queries :
             call' = [call EXCEPT ![t] = Enter("prepare", query, 0, "lock_queries")]
       /\ UNCHANGED <<queries, connLock, queriesLock, connPoisoned, queriesPoisoned>>
       /\ UNCHANGED conv
    \/ /\ call[t].op = "prepare"
       /\ LockQueries(t, "lock_conn")
       /\ UNCHANGED conv
    \/ /\ call[t].op = "prepare"
       /\ LockConn(t, "validate")
       /\ UNCHANGED conv
    \/ PrepareValidate(t)
    \/ PrepareStore(t)

prepare(t) ==
    \/ PrepareCall(t)
    \/ PrepareLockConn(t)
    \/ PrepareLockQueries(t)
    \/ PrepareValidate(t)
    \/ PrepareStore(t)

(***************************************************************************)
(* execute(resource, stmt_id, params)                                      *)
(***************************************************************************)
ExecuteCall(t) ==
    /\ Idle(t)
    /\ \E stmt_id \in Handles :
          call' = [call EXCEPT ![t] = Enter("execute", "", stmt_id, "lock_conn")]
    /\ UNCHANGED <<queries, connLock, queriesLock, connPoisoned, queriesPoisoned>>
    /\ UNCHANGED conv

ExecuteLockConn(t) ==
    /\ call[t].op = "execute"
    /\ LockConn(t, "lock_queries")
    /\ UNCHANGED conv

ExecuteLockQueries(t) ==
    /\ call[t].op = "execute"
    /\ LockQueries(t, "get_ref")
    /\ UNCHANGED conv

\* an execute whose not-found exit keeps its guards (a leaked lock).
ExecuteGetRef_KeepsGuards(t) ==
    /\ At(t, "execute", "get_ref")
    /\ LET query == get_ref(queries, call[t].stmt_id)
       IN  IF query = None
           THEN call' = [call EXCEPT ![t] = [@ EXCEPT !.pc = "done",
                            !.result = Err("Invalid cache index")]]
           ELSE call' = [call EXCEPT ![t] = [@ EXCEPT !.pc = "prepare", !.text = query]]
    /\ UNCHANGED <<queries, connLock, queriesLock, connPoisoned, queriesPoisoned>>
    /\ UNCHANGED conv

\* let query = queries.get_ref(stmt_id as usize).ok_or_else(|| "Invalid cache index")?
ExecuteGetRef(t) ==
    /\ At(t, "execute", "get_ref")
    /\ LET query == get_ref(queries, call[t].stmt_id)
       IN  IF query = None
           THEN Return(t, Err("Invalid cache index"))
           ELSE /\ call' = [call EXCEPT ![t] = [@ EXCEPT !.pc = "prepare", !.text = query]]
                /\ UNCHANGED <<connLock, queriesLock>>
    /\ UNCHANGED <<queries, connPoisoned, queriesPoisoned>>
    /\ UNCHANGED conv

\* let mut stmt = conn.prepare(query).map_err(..)?
ExecutePrepare(t) ==
    /\ At(t, "execute", "prepare")
    /\ EnginePrepare(t, call[t].text.val, "params")
    /\ UNCHANGED <<queries, connPoisoned, queriesPoisoned>>
    /\ UNCHANGED conv

\* the params argument of the call, drawn where the function first reads it
\* (nothing before the conversion loop looks at it).
ExecuteParams(t) ==
    /\ At(t, "execute", "params")
    /\ \E params \in ParamVectors :
          call' = [call EXCEPT ![t] = [@ EXCEPT !.pc = "convert", !.params = params]]
    /\ UNCHANGED <<queries, connLock, queriesLock, connPoisoned, queriesPoisoned>>
    /\ UNCHANGED conv

\* let params_vec = params.into_iter().map(term_to_duckdb_value).collect()?
ExecuteConvert(t) ==
    /\ At(t, "execute", "convert")
    /\ \E converted \in collect_params(call[t].params) :
          CASE converted.tag = "Panic" ->
                 Unwind(t)
            [] converted.tag = "Err" ->
                 /\ Return(t, Err(converted.msg))
                 /\ UNCHANGED <<connPoisoned, queriesPoisoned>>
            [] OTHER ->
                 /\ call' = [call EXCEPT ![t] = [@ EXCEPT !.pc = "query", !.params = <<>>]]
                 /\ UNCHANGED <<connLock, queriesLock, connPoisoned, queriesPoisoned>>
    /\ UNCHANGED queries
    /\ UNCHANGED conv

\* stmt.query_map(params_from_iter(..), ..).map_err(|e| "SQL execution error")?
ExecuteQuery(t) ==
    /\ At(t, "execute", "query")
    /\ \E ran \in BOOLEAN :
          IF ran
          THEN /\ call' = [call EXCEPT ![t] = [@ EXCEPT !.pc = "rows",
                              !.engine = Append(@, "query")]]
               /\ UNCHANGED <<connLock, queriesLock>>
          ELSE /\ call' = [call EXCEPT ![t] = [@ EXCEPT !.pc = "done",
                              !.engine = Append(@, "query"),
                              !.result = Err("SQL execution error")]]
               /\ connLock' = IF connLock = t THEN NoThread ELSE connLock
               /\ queriesLock' = IF queriesLock = t THEN NoThread ELSE queriesLock
    /\ UNCHANGED <<queries, connPoisoned, queriesPoisoned>>
    /\ UNCHANGED conv

\* rows_result.collect().map_err(|e| "SQL row processing error")?, then the
\* columns from stmt.column_names() / column_type(), the cells converted.
ExecuteRows(t) ==
    /\ At(t, "execute", "rows")
    /\ \/ /\ call' = [call EXCEPT ![t] = [@ EXCEPT !.pc = "done",
                         !.engine = Append(@, "rows"),
                         !.result = Err("SQL row processing error")]]
       \/ \E got \in EngineResults :
             LET rows == [r \in 1..Len(got.rows) |-> map_while_get(got.rows[r])]
                 num_rows == Len(rows)
                 columns == [i \in 1..Len(got.names) |-> <<got.names[i], got.types[i]>>]
                 result_rows == [r \in 1..Len(rows) |->
                                   [i \in 1..Len(rows[r]) |->
                                      duckdb_value_to_term(rows[r][i])]]
             IN  call' = [call EXCEPT ![t] = [@ EXCEPT !.pc = "done",
                            !.engine = Append(@, "rows"),
                            !.result = Ok(DuckexResult(columns, result_rows, num_rows))]]
    /\ connLock' = IF connLock = t THEN NoThread ELSE connLock
    /\ queriesLock' = IF queriesLock = t THEN NoThread ELSE queriesLock
    /\ UNCHANGED <<queries, connPoisoned, queriesPoisoned>>
    /\ UNCHANGED conv

execute(t) ==
    \/ ExecuteCall(t)
    \/ ExecuteLockConn(t)
    \/ ExecuteLockQueries(t)
    \/ ExecuteGetRef(t)
    \/ ExecutePrepare(t)
    \/ ExecuteParams(t)
    \/ ExecuteConvert(t)
    \/ ExecuteQuery(t)
    \/ ExecuteRows(t)

(***************************************************************************)
(* close(resource, stmt_id)                                                *)
(***************************************************************************)
CloseCall(t) ==
    /\ Idle(t)
    /\ \E stmt_id \in Handles :
          call' = [call EXCEPT ![t] = Enter("close", "", stmt_id, "lock_queries")]
    /\ UNCHANGED <<queries, connLock, queriesLock, connPoisoned, queriesPoisoned>>
    /\ UNCHANGED conv

\* a close that goes on to the cache without taking its guard.
CloseLockQueries_NoGuard(t) ==
    /\ At(t, "close", "lock_queries")
    /\ call' = [call EXCEPT ![t] = [@ EXCEPT !.pc = "remove"]]
    /\ UNCHANGED <<queries, connLock, queriesLock, connPoisoned, queriesPoisoned>>
    /\ UNCHANGED conv

CloseLockQueries(t) ==
    /\ call[t].op = "close"
    /\ LockQueries(t, "remove")
    /\ UNCHANGED conv

\* a close that answers "ok" without releasing the slot.
CloseRemove_KeepsSlot(t) ==
    /\ At(t, "close", "remove")
    /\ queries' = queries
    /\ Return(t, Ok("ok"))
    /\ UNCHANGED <<connPoisoned, queriesPoisoned>>
    /\ UNCHANGED conv

\* queries.remove(stmt_id as usize); Ok("ok")
CloseRemove(t) ==
    /\ At(t, "close", "remove")
    /\ queries' = remove(queries, call[t].stmt_id)
    /\ Return(t, Ok("ok"))
    /\ UNCHANGED <<connPoisoned, queriesPoisoned>>
    /\ UNCHANGED conv

close(t) ==
    \/ CloseCall(t)
    \/ CloseLockQueries(t)
    \/ CloseRemove(t)

(***************************************************************************)
(* begin / commit / rollback: the same three steps on a literal statement. *)
(***************************************************************************)
TxnCall(t, o) ==
    /\ Idle(t)
    /\ call' = [call EXCEPT ![t] = Enter(o, "", 0, "lock_conn")]
    /\ UNCHANGED <<queries, connLock, queriesLock, connPoisoned, queriesPoisoned>>
    /\ UNCHANGED conv

\* a transaction NIF that goes on to the engine without taking the guard of
\* the connection.
TxnLockConn_NoGuard(t, o) ==
    /\ At(t, o, "lock_conn")
    /\ call' = [call EXCEPT ![t] = [@ EXCEPT !.pc = "prepare"]]
    /\ UNCHANGED <<queries, connLock, queriesLock, connPoisoned, queriesPoisoned>>
    /\ UNCHANGED conv

TxnLockConn(t, o) ==
    /\ call[t].op = o
    /\ LockConn(t, "prepare")
    /\ UNCHANGED conv

\* a transaction NIF that goes through the cache as a prepare does: the
\* literal takes a slot when one is free.
TxnPrepare_ThroughRegistry(t, o, literal) ==
    /\ At(t, o, "prepare")
    /\ EnginePrepare(t, literal, "execute")
    /\ queries' = store(queries, literal).cache
    /\ UNCHANGED <<connPoisoned, queriesPoisoned>>
    /\ UNCHANGED conv

\* let mut stmt = conn.prepare(literal).map_err(..)?
TxnPrepare(t, o, literal) ==
    /\ At(t, o, "prepare")
    /\ EnginePrepare(t, literal, "execute")
    /\ UNCHANGED <<queries, connPoisoned, queriesPoisoned>>
    /\ UNCHANGED conv

\* stmt.execute([]).map_err(|e| "SQL execution error")?; Ok("ok")
TxnExecute(t, o) ==
    /\ At(t, o, "execute")
    /\ \E ran \in BOOLEAN :
          call' = [call EXCEPT ![t] = [@ EXCEPT !.pc = "done",
                     !.engine = Append(@, "execute"),
                     !.result = IF ran THEN Ok("ok") ELSE Err("SQL execution error")]]
    /\ connLock' = IF connLock = t THEN NoThread ELSE connLock
    /\ queriesLock' = IF queriesLock = t THEN NoThread ELSE queriesLock
    /\ UNCHANGED <<queries, connPoisoned, queriesPoisoned>>
    /\ UNCHANGED conv

begin(t) ==
    \/ TxnCall(t, "begin")
    \/ TxnLockConn(t, "begin")
    \/ TxnPrepare(t, "begin", "BEGIN")
    \/ TxnExecute(t, "begin")

commit(t) ==
    \/ TxnCall(t, "commit")
    \/ TxnLockConn(t, "commit")
    \/ TxnPrepare(t, "commit", "COMMIT")
    \/ TxnExecute(t, "commit")

rollback(t) ==
    \/ TxnCall(t, "rollback")
    \/ TxnLockConn(t, "rollback")
    \/ TxnPrepare(t, "rollback", "ROLLBACK")
    \/ TxnExecute(t, "rollback")

(***************************************************************************)
(* status(_resource)                                                       *)
(***************************************************************************)
StatusCall(t) ==
    /\ Idle(t)
    /\ call' = [call EXCEPT ![t] = Enter("status", "", 0, "body")]
    /\ UNCHANGED <<queries, connLock, queriesLock, connPoisoned, queriesPoisoned>>
    /\ UNCHANGED conv

\* Ok("ok")
StatusBody(t) ==
    /\ At(t, "status", "body")
    /\ Return(t, Ok("ok"))
    /\ UNCHANGED <<queries, connPoisoned, queriesPoisoned>>
    /\ UNCHANGED conv

status(t) ==
    \/ StatusCall(t)
    \/ StatusBody(t)

Next ==
    \E t \in Threads :
       \/ prepare(t)
       \/ execute(t)
       \/ close(t)
       \/ begin(t)
       \/ commit(t)
       \/ rollback(t)
       \/ status(t)

Spec == Init /\ [][Next]_vars

(***************************************************************************)
(* Scheduling.  A NIF call runs on a scheduler thread of its own and is    *)
(* never suspended for good: a call that can take a step takes one, and a  *)
(* call waiting for a guard gets it if the guard keeps coming free (the    *)
(* mutex hands itself to every waiter in the end).  The engine returns     *)
(* from every call.  Nothing obliges a caller to start a call.             *)
(***************************************************************************)
Pending(t) == ~Idle(t)

Proceed(t) ==
    /\ Pending(t)
    /\ \/ prepare(t)
       \/ execute(t)
       \/ close(t)
       \/ begin(t)
       \/ commit(t)
       \/ rollback(t)
       \/ status(t)

FairSpec == Spec /\ \A t \in Threads : SF_vars(Proceed(t))

(***************************************************************************)
(* The conversions on their own.  A datum starts as a cell of a result row *)
(* or as a parameter handed to execute; a cell is converted to a host term *)
(* as execute converts its rows, and a host term is converted to an engine *)
(* value as execute converts its parameters (a converted cell can be bound *)
(* again).  The resource is not touched.                                   *)
(***************************************************************************)
\* the civil calendar, for drawing dates that exist.
GregorianLeap(y) == IF y % 400 = 0 THEN TRUE ELSE IF y % 100 = 0 THEN FALSE ELSE y % 4 = 0

MonthLength(y, m) ==
    CASE m = 2 -> IF GregorianLeap(y) THEN 29 ELSE 28
      [] m \in {4, 6, 9, 11} -> 30
      [] OTHER -> 31

\* valid civil date-times from the epoch year on: first, middle and last day
\* of every month of years around the leap rules, at both ends of the day.
CivilYears == {1970, 1971, 1972, 1999, 2000, 2001, 2100, 2101}

CivilDateTimes ==
    {[year |-> y, month |-> m, day |-> d, hour |-> tod[1], minute |-> tod[2],
      second |-> tod[3], microsecond |-> tod[4]] :
        y \in CivilYears, m \in 1..12, d \in {1, 15, 28, 29, 30, 31},
        tod \in {<<0, 0, 0, 0>>, <<23, 59, 59, 999999>>}}

ValidCivil == {c \in CivilDateTimes : c.day <= MonthLength(c.year, c.month)}

CivilTerm(c) ==
    DateTimeTerm(c.year, c.month, c.day, c.hour, c.minute, c.second, c.microsecond)

\* integers at the ends of the engine's widths.
MinI64 == [top |-> 0 - 2, mid |-> 0, low |-> 0]
MaxI64 == [top |-> 1, mid |-> DigitMax, low |-> DigitMax]
MaxU32 == [top |-> 0, mid |-> 1, low |-> DigitMax]
MaxU64 == [top |-> 3, mid |-> DigitMax, low |-> DigitMax]
TwoTo63 == [top |-> 2, mid |-> 0, low |-> 0]

\* the cells drawn: every kind of Value, the integer kinds at the ends of
\* their ranges.
ScalarCells ==
    {NullValue, BooleanValue(TRUE), BooleanValue(FALSE)}
    \cup {TinyIntValue(Number(i)) : i \in {0 - 128, 0 - 1, 0, 127}}
    \cup {SmallIntValue(Number(i)) : i \in {0 - 32768, 32767}}
    \cup {IntValue(Number(i)) : i \in {(0 - DigitMax) - 1, 42, DigitMax}}
    \cup {BigIntValue(n) : n \in {MinI64, Number(0 - 1), Number(42), MaxI64}}
    \cup {UTinyIntValue(Number(i)) : i \in {0, 255}}
    \cup {USmallIntValue(Number(i)) : i \in {0, 65535}}
    \cup {UIntValue(n) : n \in {Number(0), Number(DigitMax), MaxU32}}
    \cup {UBigIntValue(n) : n \in {Number(0), Number(42), MaxU32, MaxI64,
                                    TwoTo63, [TwoTo63 EXCEPT !.low = 1], MaxU64}}
    \cup {FloatValue(x) : x \in {"0.0", "1.5"}}
    \cup {DoubleValue(x) : x \in {"0.0", "-2.25", "1.0e300"}}
    \cup {TextValue(x) : x \in {"", "abc", "true", "nil", "42"}}

OtherCells ==
    {TimestampCell(u, 1500) : u \in {"Second", "Millisecond", "Microsecond", "Nanosecond"}}
    \cup {Time64Value(u, 1500) : u \in {"Microsecond", "Nanosecond"}}
    \cup {Date32Value(d) : d \in {0 - 1, 0, 19000}}
    \cup {BlobValue(b) : b \in {<<>>, <<104>>, <<104, 105>>, <<1, 2, 3, 255>>}}
    \cup {EnumValue("happy"), HugeIntValue(Number(5))}
    \cup {ListValue(vec) : vec \in {<<>>, <<BigIntValue(Number(1)), NullValue>>,
                                     <<UBigIntValue(MaxU64)>>}}
    \cup {ArrayValue(<<TinyIntValue(Number(1)), TinyIntValue(Number(2))>>)}
    \cup {StructValue(<<<<"a", IntValue(Number(1))>>, <<"b", TextValue("x")>>>>)}
    \cup {MapValue(<<<<TextValue("k"), BooleanValue(TRUE)>>,
                     <<BlobValue(<<104, 105>>), NullValue>>,
                     <<BigIntValue(Number(3)), UBigIntValue(TwoTo63)>>>>)}
    \cup {UnionValue(v) : v \in {UBigIntValue(MaxU64), TextValue("u")}}

CellValues == ScalarCells \cup OtherCells

\* the parameters drawn: every kind of term, maps of every shape, and the
\* date-times above together with some that name no day of the calendar.
ScalarTerms ==
    {IntegerTerm(n) : n \in {MinI64, Number(0 - 1), Number(0), Number(42), MaxI64,
                             TwoTo63, MaxU64, [MinI64 EXCEPT !.top = 0 - 3]}}
    \cup {FloatTerm(x) : x \in {"0.0", "1.5"}}
    \cup {BinaryTerm(x) : x \in {"", "abc", "true", "nil"}}
    \cup {AtomTerm(a) : a \in {"true", "false", "nil", "ok", "Elixir.Date"}}

ContainerTerms ==
    {ListTerm(<<>>), ListTerm(<<IntegerTerm(Number(1))>>),
     TupleTerm(<<IntegerTerm(Number(1)), IntegerTerm(Number(2))>>),
     [kind |-> "pid"],
     MapTerm(<<>>),
     MapTerm("a" :> IntegerTerm(Number(1))),
     MapTerm(("year" :> IntegerTerm(Number(2024))) @@
             ("month" :> IntegerTerm(Number(1))) @@
             ("day" :> IntegerTerm(Number(5)))),
     MapTerm(("__struct__" :> AtomTerm("Elixir.Time")) @@
             ("hour" :> IntegerTerm(Number(1)))),
     MapTerm(("__struct__" :> BinaryTerm("Elixir.Date")) @@
             ("year" :> IntegerTerm(Number(2024))) @@
             ("month" :> IntegerTerm(Number(1))) @@
             ("day" :> IntegerTerm(Number(5))))}

DateTerms ==
    {DateTerm(2024, 1, 5), DateTerm(1999, 12, 31), DateTerm(5, 10, 9),
     DateTerm(12345, 6, 7), DateTerm(2024, 13, 45), DateTerm(2024, 0, 0)}

\* records with the tag of a date or a date-time and a field missing or
\* undecodable.
IncompleteTerms ==
    {MapTerm(("__struct__" :> AtomTerm("Elixir.Date")) @@
             ("year" :> IntegerTerm(Number(2024))) @@
             ("month" :> IntegerTerm(Number(1)))),
     MapTerm([DateTerm(2024, 1, 5).entries EXCEPT !["month"] = AtomTerm("jan")]),
     MapTerm([DateTerm(2024, 1, 5).entries EXCEPT !["day"] = IntegerTerm(Number(0 - 5))]),
     MapTerm([DateTerm(2024, 1, 5).entries EXCEPT !["year"] = IntegerTerm(TwoTo63)]),
     MapTerm([k \in DOMAIN DateTimeTerm(2024, 1, 5, 0, 0, 0, 0).entries \ {"second"} |->
                DateTimeTerm(2024, 1, 5, 0, 0, 0, 0).entries[k]]),
     MapTerm([DateTimeTerm(2024, 1, 5, 0, 0, 0, 0).entries
                EXCEPT !["microsecond"] = IntegerTerm(Number(0))]),
     MapTerm([DateTimeTerm(2024, 1, 5, 0, 0, 0, 0).entries
                EXCEPT !["hour"] = FloatTerm("1.5")])}

\* date-time records, complete and decodable, that name no day of the
\* calendar: a month or a day outside its range.
OutOfRangeDateTimes ==
    {DateTimeTerm(2000, mo, 1, 0, 0, 0, 0) : mo \in {0, 13, 14, 15}}
    \cup {DateTimeTerm(2000, 1, 0, 0, 0, 0, 0), DateTimeTerm(2000, 2, 30, 0, 0, 0, 0)}

Terms ==
    ScalarTerms \cup ContainerTerms \cup DateTerms \cup IncompleteTerms
    \cup OutOfRangeDateTimes \cup {CivilTerm(c) : c \in ValidCivil}

ConversionInit ==
    /\ new(Capacity)
    /\ call = [t \in Threads |-> NoCall]
    /\ bound = None
    /\ \/ /\ cell \in {Some(value) : value \in CellValues}
          /\ host = None
       \/ /\ cell = None
          /\ host \in {Some(x) : x \in Terms}

\* row.into_iter().map(|v| duckdb_value_to_term(env, v)): a cell of a result
\* row becomes a host term.
ResultCell ==
    /\ cell # None
    /\ host = None
    /\ host' = Some(duckdb_value_to_term(cell.val))
    /\ UNCHANGED <<cell, bound>>
    /\ UNCHANGED vars

\* params.into_iter().map(|term| term_to_duckdb_value(term)): a host term
\* becomes an engine value, an error or a panic.
BoundParameter ==
    /\ host # None
    /\ bound = None
    /\ \E outcome \in term_to_duckdb_value(host.val) : bound' = Some(outcome)
    /\ UNCHANGED <<cell, host>>
    /\ UNCHANGED vars

ConversionNext ==
    \/ ResultCell
    \/ BoundParameter

Conversion == ConversionInit /\ [][ConversionNext]_<<vars, conv>>

(***************************************************************************)
(* Vocabulary of the properties.                                           *)
(***************************************************************************)
\* thread t takes a step of its call.
Steps(t) == call'[t] # call[t]

\* thread t's call returns (or raises) in this step.
Returns(t) == call[t].pc \notin {"idle", "done"} /\ call'[t].pc = "done"

Returned(t, o) == call[t].op = o /\ call[t].pc = "done"

Failed(r) == r.tag \in {"Err", "Raise"}

IsLockError(r) == r.tag = "Err" /\ r.msg = PoisonError

\* the handle a successful prepare returned.
ResultRef(r) == r.val.rows[1][1]

\* the ParameterTypeError messages.
ParameterTypeErrors == {unsupported(term).msg : term \in ParamTerms}

IsParameterTypeError(r) == r.tag = "Err" /\ r.msg \in ParameterTypeErrors

\* a term the conversion rejects with an error.
Unsupported(term) == \E o \in term_to_duckdb_value(term) : o.tag = "Err"

(***************************************************************************)
(* C1.  A failed prepare leaves the Registry untouched: no step of a       *)
(* prepare call other than the one returning a handle changes the slots or *)
(* the free indices; in particular a prepare that returns an error (the    *)
(* engine rejected the text, no slot was free, a guard was poisoned) has   *)
(* stored nothing and consumed no slot.                                    *)
(***************************************************************************)
C1_FailedPrepareLeavesRegistry ==
    [][\A t \in Threads :
          (/\ call[t].op = "prepare"
           /\ Steps(t)
           /\ ~(Returns(t) /\ call'[t].result.tag = "Ok"))
          => queries' = queries]_vars

\* a prepare was rejected by the engine, another one found the cache full,
\* and the cache still holds exactly what was stored before.
C1_Witness ==
    \E t1, t2 \in Threads :
       /\ Returned(t1, "prepare")
       /\ call[t1].result = Err("SQL preparation error")
       /\ Returned(t2, "prepare")
       /\ call[t2].result = Err("Exhausted prepared statements cache")
       /\ Live(queries) = DOMAIN queries.slots

C3_StoreStep(t) ==
    /\ call'[t].result.tag \in {"Ok", "Err"}
    /\ (call'[t].result.tag = "Err")
          <=> (Cardinality(Live(queries)) = Capacity)
    /\ call'[t].result.tag = "Err"
          => /\ call'[t].result = Err("Exhausted prepared statements cache")
             /\ Live(queries') = Live(queries)
    /\ call'[t].result.tag = "Ok"
          => /\ ResultRef(call'[t].result) \notin Live(queries)
             /\ Live(queries') = Live(queries) \cup {ResultRef(call'[t].result)}

C3_CapacityCeiling ==
    /\ [](Cardinality(Live(queries)) <= Capacity)
    /\ [][\A t \in Threads :
             (At(t, "prepare", "store") /\ Steps(t)) => C3_StoreStep(t)]_vars

\* the cache is full, one prepare got the last handle and the next prepare
\* of a text the engine accepted was refused.
C3_Witness ==
    \E t1, t2 \in Threads :
       /\ Cardinality(Live(queries)) = Capacity
       /\ Returned(t1, "prepare")
       /\ call[t1].result.tag = "Ok"
       /\ ResultRef(call[t1].result) = Capacity - 1
       /\ Returned(t2, "prepare")
       /\ call[t2].result = Err("Exhausted prepared statements cache")
       /\ call[t2].engine = <<"prepare">>

(***************************************************************************)
(* C4.  A live handle stays bound to its own text: the handle a prepare    *)
(* returns was not live and is bound to that prepare's text; the text of a *)
(* live handle h changes in no step other than the removal step of a       *)
(* close(h) (no eviction, no rebinding by prepare, execute, begin, commit, *)
(* rollback, status or a failed call); and an execute that resolved its    *)
(* handle holds, and hands to the engine, exactly the text the handle is   *)
(* bound to.                                                               *)
(***************************************************************************)
C4_Resolved(t) ==
    (call[t].op = "execute" /\ call[t].pc \in {"prepare", "params", "convert", "query", "rows"})
    => /\ call[t].stmt_id \in Live(queries)
       /\ call[t].text = queries.slots[call[t].stmt_id]

C4_Step ==
    /\ \A h \in Live(queries) :
          queries'.slots[h] # queries.slots[h]
          => \E t \in Threads :
                At(t, "close", "remove") /\ call[t].stmt_id = h /\ Returns(t)
    /\ \A t \in Threads :
          (At(t, "prepare", "store") /\ Returns(t) /\ call'[t].result.tag = "Ok")
          => /\ ResultRef(call'[t].result) \notin Live(queries)
             /\ queries'.slots[ResultRef(call'[t].result)] = Some(call[t].query)

C4_LiveHandleKeepsText ==
    /\ [](\A t \in Threads : C4_Resolved(t))
    /\ [][C4_Step]_vars

\* with the cache full and the two handles bound to different texts, an
\* execute of handle 1 ran the text of handle 1.
C4_Witness ==
    \E t \in Threads :
       /\ Returned(t, "execute")
       /\ call[t].stmt_id = 1
       /\ call[t].result.tag = "Ok"
       /\ call[t].text = Some("SELECT 2")
       /\ queries.slots[0] = Some("SELECT 1")
       /\ queries.slots[1] = Some("SELECT 2")

(***************************************************************************)
(* C5.  Handle reuse: an execute that looks up a handle that is not live   *)
(* (released, never allocated or out of range) returns "Invalid cache      *)
(* index" and has made no engine call; a released handle stays that way    *)
(* until the store step of a prepare returns it, which binds it to that    *)
(* prepare's text; and an execute of a live handle resolves to the text    *)
(* the handle is bound to now.                                             *)
(***************************************************************************)
C5_Step ==
    /\ \A t \in Threads :
          (At(t, "execute", "get_ref") /\ Steps(t))
          => IF call[t].stmt_id \in Live(queries)
             THEN /\ call'[t].pc = "prepare"
                  /\ call'[t].text = queries.slots[call[t].stmt_id]
             ELSE /\ call'[t].pc = "done"
                  /\ call'[t].result = Err("Invalid cache index")
                  /\ call'[t].engine = <<>>
                  /\ call'[t].text = None
    /\ \A t \in Threads :
          (At(t, "close", "remove") /\ Steps(t))
          => call[t].stmt_id \notin Live(queries')
    /\ \A h \in DOMAIN queries.slots :
          (h \notin Live(queries) /\ h \in Live(queries'))
          => \E t \in Threads :
                /\ At(t, "prepare", "store")
                /\ Returns(t)
                /\ call'[t].result.tag = "Ok"
                /\ ResultRef(call'[t].result) = h
                /\ queries'.slots[h] = Some(call[t].query)

C5_HandleReuse == [][C5_Step]_vars

\* an execute took the connection guard while its handle was live, the
\* handle was closed before the execute looked it up, and the execute
\* returned not-found without an engine call.
C5_Witness ==
    \E t1, t2 \in Threads :
       /\ Returned(t1, "execute")
       /\ call[t1].atConn # None
       /\ call[t1].result = Err("Invalid cache index")
       /\ call[t1].engine = <<>>
       /\ Returned(t2, "close")
       /\ call[t2].stmt_id = call[t1].stmt_id
       /\ call[t2].result.tag = "Ok"

(***************************************************************************)
(* C6.  close always succeeds and is idempotent: every close returns "ok", *)
(* for a live, released, never allocated or out-of-range handle alike; a   *)
(* close of a handle that is not live leaves the Registry unchanged; and   *)
(* after a close its handle is not live, so closing it again changes       *)
(* nothing.                                                                *)
(***************************************************************************)
C6_CloseAlwaysOk ==
    /\ [](\A t \in Threads : Returned(t, "close") => call[t].result = Ok("ok"))
    /\ [][\A t \in Threads :
             (call[t].op = "close" /\ Steps(t) /\ ~Idle(t))
             => /\ call[t].stmt_id \notin Live(queries) => queries' = queries
                /\ Returns(t) => call[t].stmt_id \notin Live(queries')]_vars

(***************************************************************************)
(* C7.  Two operations on the same Session never interleave their engine   *)
(* access: at most one call at a time is at or between its engine calls,   *)
(* and that call holds the guard of the connection.                        *)
(***************************************************************************)
\* thread t is about to call the engine or is between two of its engine calls.
EngineAccess(t) ==
    \/ call[t].op = "prepare" /\ call[t].pc = "validate"
    \/ call[t].op = "execute" /\ call[t].pc \in {"prepare", "params", "convert", "query", "rows"}
    \/ call[t].op \in {"begin", "commit", "rollback"} /\ call[t].pc \in {"prepare", "execute"}

C7_EngineAccessSerialized ==
    /\ \A t1, t2 \in Threads : (EngineAccess(t1) /\ EngineAccess(t2)) => t1 = t2
    /\ \A t \in Threads : EngineAccess(t) => connLock = t

\* an execute is between its re-prepare and its run while a begin waits for
\* the guard of the connection.
C7_Witness ==
    \E t1, t2 \in Threads :
       /\ At(t1, "execute", "query")
       /\ call[t1].engine = <<"prepare">>
       /\ At(t2, "begin", "lock_conn")

(***************************************************************************)
(* C8 as stated.  Every operation (prepare, execute, close, begin, commit, *)
(* rollback, status) acquires the guard of the connection, and prepare,    *)
(* execute and close the guard of the Registry as well, and holds none of  *)
(* them once it has returned.  (A call refused at a poisoned guard is left *)
(* out.)                                                                   *)
(***************************************************************************)
Acquired(t) == {call[t].guards[i] : i \in 1..Len(call[t].guards)}

ExpectedGuards(o) ==
    CASE o \in {"prepare", "execute"}          -> <<"conn", "queries">>
      [] o = "close"                           -> <<"queries">>
      [] o \in {"begin", "commit", "rollback"} -> <<"conn">>
      [] OTHER                                 -> <<>>

Consulted(c) ==
    /\ c.pc = "done"
    /\ \/ /\ c.op = "prepare"
          /\ \/ c.result.tag = "Ok"
             \/ c.result = Err("Exhausted prepared statements cache")
       \/ /\ c.op = "execute"
          /\ ~IsLockError(c.result)

Observed(c) ==
    IF c.op = "prepare"
    THEN IF c.result.tag = "Ok" THEN Some(ResultRef(c.result)) ELSE None
    ELSE c.text

C10_FailedExecuteLeavesSession ==
    [][\A t \in Threads :
          /\ (call[t].op = "execute" /\ Steps(t) /\ ~Idle(t)) => queries' = queries
          /\ (call[t].op = "execute" /\ Returns(t) /\ Failed(call'[t].result))
             => /\ connPoisoned' = connPoisoned
                /\ queriesPoisoned' = queriesPoisoned
                /\ connLock' # t
                /\ queriesLock' # t]_vars

(***************************************************************************)
(* C11.  No operation aborts instead of returning an error value: no call  *)
(* ends in a raise (every call that has returned handed its caller Ok or   *)
(* Err), and neither guard is ever left unusable (poisoned) for the calls  *)
(* that come later.                                                        *)
(***************************************************************************)
C11_NoOperationAborts ==
    /\ \A t \in Threads : call[t].result.tag # "Raise"
    /\ ~connPoisoned
    /\ ~queriesPoisoned

(***************************************************************************)
(* The civil calendar as a reference: the number of days from 1970-01-01   *)
(* to a civil date of the proleptic Gregorian calendar, in closed form     *)
(* (years counted from March, in eras of 400 years = 146097 days).         *)
(***************************************************************************)
DaysFromCivil(y, m, d) ==
    LET yy  == IF m <= 2 THEN y - 1 ELSE y
        era == yy \div 400
        yoe == yy - era * 400
        mp  == (m + 9) % 12
        doy == (153 * mp + 2) \div 5 + (d - 1)
        doe == yoe * 365 + yoe \div 4 - yoe \div 100 + doy
    IN  era * 146097 + doe - 719468

\* the epoch microseconds of a civil date-time, split as total_microseconds
\* is: days * 86400000000 + seconds * 1000000 + micros.
EpochMicros(c) ==
    [days    |-> DaysFromCivil(c.year, c.month, c.day),
     wraps   |-> 0,
     seconds |-> c.hour * 3600 + c.minute * 60 + c.second,
     micros  |-> c.microsecond]

\* a is earlier than b, as civil date-times.
CivilBefore(a, b) ==
    LET fa == <<a.year, a.month, a.day, a.hour, a.minute, a.second, a.microsecond>>
        fb == <<b.year, b.month, b.day, b.hour, b.minute, b.second, b.microsecond>>
    IN  \E i \in 1..7 : fa[i] < fb[i] /\ \A j \in 1..(i - 1) : fa[j] = fb[j]

\* x < y as counts of microseconds (seconds < 86400 and micros < 1000000).
MicrosLess(x, y) ==
    \/ x.days < y.days
    \/ x.days = y.days /\ x.seconds < y.seconds
    \/ x.days = y.days /\ x.seconds = y.seconds /\ x.micros < y.micros

\* what the code computes for every valid civil date-time drawn.
CivilMicros ==
    [c \in ValidCivil |->
       total_microseconds(c.year, c.month, c.day, c.hour, c.minute, c.second,
                          c.microsecond)]

(***************************************************************************)
(* C12.  Calendar correctness: a valid civil date-time with year >= 1970   *)
(* converts to Timestamp(microsecond, n) where n is the number of days     *)
(* from 1970-01-01 under the Gregorian leap rule times 86400000000, plus   *)
(* hour * 3600000000 + minute * 60000000 + second * 1000000 + microsecond; *)
(* 1970-01-01 00:00:00 gives 0, 2000-03-01 counts the 29 days of February  *)
(* 2000, and the result is strictly increasing in civil order.             *)
(***************************************************************************)
C12_CalendarCorrect ==
    \A c \in ValidCivil :
       (bound # None /\ host = Some(CivilTerm(c))) =>
          /\ bound.val = Ok(TimestampValue(EpochMicros(c)))
          /\ (c.year = 1970 /\ c.month = 1 /\ c.day = 1 /\ c.hour = 0)
                => bound.val.val.micros.days = 0 /\ bound.val.val.micros.seconds = 0
          /\ (c.year = 2000 /\ c.month = 3 /\ c.day = 1)
                => bound.val.val.micros.days = 10957 + 31 + 29
          /\ \A other \in ValidCivil :
                CivilBefore(other, c)
                   => MicrosLess(CivilMicros[other], bound.val.val.micros)

\* 2000-03-01 00:00:00 was converted: 11017 days after the epoch, the 29th
\* of February 2000 among them.
C12_Witness ==
    /\ host = Some(DateTimeTerm(2000, 3, 1, 0, 0, 0, 0))
    /\ bound = Some(Ok(TimestampValue(
                  [days |-> 11017, wraps |-> 0, seconds |-> 0, micros |-> 0])))

(***************************************************************************)
(* C13.  Every ResultSet returned by execute is well formed, whatever the  *)
(* engine answered: num_rows is the number of rows, and every row has      *)
(* exactly as many cells as there are columns (also when the read of a     *)
(* cell failed at an index below the column count).                        *)
(***************************************************************************)
C13_ResultSetWellFormed ==
    \A t \in Threads :
       (Returned(t, "execute") /\ call[t].result.tag = "Ok") =>
          LET result == call[t].result.val
          IN  /\ result.num_rows = Len(result.rows)
              /\ \A r \in 1..Len(result.rows) :
                    Len(result.rows[r]) = Len(result.columns)

(***************************************************************************)
(* C14.  Round trip: a scalar Value that is representable as a bound       *)
(* parameter (Null, Boolean, an integer of any width whose value fits in   *)
(* signed 64 bits, Double, Text), converted to the host and bound again,   *)
(* comes back with the same content: an integer as BigInt of the same      *)
(* number, a Double, a Text and a Boolean as themselves, Null as Null.     *)
(***************************************************************************)
IntegerKinds ==
    {"TinyInt", "SmallInt", "Int", "BigInt", "UTinyInt", "USmallInt", "UInt", "UBigInt"}

\* the kinds of the round trip, an integer only with a value in -2^63..2^63-1.
Representable(value) ==
    \/ value.type \in {"Null", "Boolean", "Double", "Text"}
    \/ value.type \in IntegerKinds /\ fits_i64(value.int)

\* the value with the same engine-observable content.
SameContent(value) ==
    IF value.type \in IntegerKinds THEN BigIntValue(value.int) ELSE value

C14_RoundTrip ==
    (cell # None /\ bound # None) =>
       (Representable(cell.val) => bound.val = Ok(SameContent(cell.val)))

\* the largest UInt went to the host as 4294967295 and came back as
\* BigInt(4294967295).
C14_Witness ==
    /\ cell = Some(UIntValue(MaxU32))
    /\ host = Some(IntegerTerm(MaxU32))
    /\ bound = Some(Ok(BigIntValue(MaxU32)))

(***************************************************************************)
(* The shapes of the dispatch, read off the term alone.                    *)
(***************************************************************************)
HasInteger(entries, key, fits(_)) ==
    /\ key \in DOMAIN entries
    /\ entries[key].kind = "integer"
    /\ fits(entries[key].int)

HasTag(x, module) ==
    /\ x.kind = "map"
    /\ "__struct__" \in DOMAIN x.entries
    /\ x.entries["__struct__"] = AtomTerm(module)

CivilDateShape(x) ==
    /\ HasTag(x, "Elixir.Date")
    /\ HasInteger(x.entries, "year", fits_i32)
    /\ HasInteger(x.entries, "month", fits_u32)
    /\ HasInteger(x.entries, "day", fits_u32)

CivilTimestampShape(x) ==
    /\ HasTag(x, "Elixir.DateTime")
    /\ HasInteger(x.entries, "year", fits_i32)
    /\ \A key \in {"month", "day", "hour", "minute", "second"} :
          HasInteger(x.entries, key, fits_u32)
    /\ "microsecond" \in DOMAIN x.entries
    /\ x.entries["microsecond"].kind = "tuple"
    /\ Len(x.entries["microsecond"].elems) = 2
    /\ \A i \in 1..2 : x.entries["microsecond"].elems[i].kind = "integer"
    /\ fits_i64(x.entries["microsecond"].elems[1].int)
    /\ fits_u32(x.entries["microsecond"].elems[2].int)

\* the civil fields of a record of the timestamp shape.
CivilFields(x) ==
    [year        |-> SmallOf(x.entries["year"].int),
     month       |-> SmallOf(x.entries["month"].int),
     day         |-> SmallOf(x.entries["day"].int),
     hour        |-> SmallOf(x.entries["hour"].int),
     minute      |-> SmallOf(x.entries["minute"].int),
     second      |-> SmallOf(x.entries["second"].int),
     microsecond |-> SmallOf(x.entries["microsecond"].elems[1].int)]

\* n >= 0 written in at least width digits.
RECURSIVE ZeroPadded(_, _)
ZeroPadded(n, width) ==
    IF width <= 1 \/ Len(ToString(n)) >= width
    THEN ToString(n)
    ELSE "0" \o ZeroPadded(n, width - 1)

IsoDate(x) ==
    ZeroPadded(SmallOf(x.entries["year"].int), 4) \o "-"
    \o ZeroPadded(SmallOf(x.entries["month"].int), 2) \o "-"
    \o ZeroPadded(SmallOf(x.entries["day"].int), 2)

\* the category an unsupported term is reported with.
Category(x) ==
    CASE x.kind \in {"integer", "float"} -> "number (but failed to decode as i64 or f64)"
      [] x.kind = "map"    -> "map (unsupported structure)"
      [] x.kind = "list"   -> "list (not yet supported)"
      [] x.kind = "atom"   -> "atom (not nil)"
      [] x.kind = "binary" -> "binary (failed to decode as string)"
      [] x.kind = "tuple"  -> "tuple (not supported)"
      [] OTHER             -> "unknown type"

\* outcome is what the dispatch order prescribes for the term x.
Dispatched(x, outcome) ==
    CASE CivilDateShape(x) ->
           outcome = Ok(TextValue(IsoDate(x)))
      [] ~CivilDateShape(x) /\ CivilTimestampShape(x) ->
           /\ outcome.tag = "Ok"
           /\ outcome.val.type = "Timestamp"
           /\ outcome.val.unit = "Microsecond"
           /\ CivilFields(x) \in ValidCivil
                 => outcome.val.micros = EpochMicros(CivilFields(x))
      [] x.kind = "integer" /\ fits_i64(x.int) ->
           outcome = Ok(BigIntValue(x.int))
      [] x.kind = "float" ->
           outcome = Ok(DoubleValue(x.float))
      [] x.kind = "binary" ->
           outcome = Ok(TextValue(x.bin))
      [] x.kind = "atom" /\ x.atom \in {"true", "false"} ->
           outcome = Ok(BooleanValue(x.atom = "true"))
      [] x.kind = "atom" /\ x.atom = "nil" ->
           outcome = Ok(NullValue)
      [] OTHER ->
           outcome = Err("Unsupported parameter type: " \o Category(x))

(***************************************************************************)
(* C15.  Host-to-engine dispatch is first-match-wins in the stated order:  *)
(* a civil date record gives Text "YYYY-MM-DD" (zero-padded), else a civil *)
(* timestamp record gives Timestamp(microsecond, epoch micros), else an    *)
(* integer gives BigInt, a float Double, a text Text, a boolean Boolean,   *)
(* nil Null, and every other term fails with UnsupportedType naming its    *)
(* category: "list" for a list, "map" for a map that is no complete civil  *)
(* date or timestamp record.                                               *)
(***************************************************************************)
C15_DispatchFirstMatchWins ==
    (host # None /\ bound # None) => Dispatched(host.val, bound.val)

(***************************************************************************)
(* C16.  Engine-to-host integer normalisation: an integer of any width     *)
(* below UInt64 becomes the host integer of the same value; a UInt64 u     *)
(* becomes its signed 64-bit reinterpretation, u when u < 2^63 and         *)
(* u - 2^64 (a negative number) when u >= 2^63; and the conversion fails   *)
(* for no Value: every cell has a host term.                               *)
(***************************************************************************)
TermKinds == {"atom", "integer", "float", "binary", "tuple", "list", "map"}

\* u - 2^64 (2^64 is four units of the top digit).
MinusTwoTo64(u) == [u EXCEPT !.top = @ - 4]

SignedReinterpretation(u) ==
    IF NumLess(u, TwoTo63) THEN u ELSE MinusTwoTo64(u)

C16_IntegerNormalisation ==
    /\ (cell # None /\ host = None) => ENABLED ResultCell
    /\ (cell # None /\ host # None) =>
          /\ host.val.kind \in TermKinds
          /\ cell.val.type \in IntegerKinds \ {"UBigInt"}
                => host.val = IntegerTerm(cell.val.int)
          /\ cell.val.type = "UBigInt"
                => /\ host.val = IntegerTerm(SignedReinterpretation(cell.val.int))
                   /\ ~NumLess(cell.val.int, TwoTo63)
                         => NumLess(host.val.int, Number(0))

\* the UInt64 2^64 - 1 reached the host as -1.
C16_Witness ==
    /\ cell = Some(UBigIntValue(MaxU64))
    /\ host = Some(IntegerTerm(Number(0 - 1)))

(***************************************************************************)
(* C17.  begin, commit and rollback issue the literal statements "BEGIN",  *)
(* "COMMIT" and "ROLLBACK" to the engine, by a prepare and then an execute *)
(* without parameters, under the guard of the connection, and leave the    *)
(* Registry unchanged: no step of theirs changes a slot, they never take   *)
(* the Registry guard, and what they return follows from the guard and the *)
(* engine alone, whatever the Registry holds.                              *)
(***************************************************************************)
TxnOps == {"begin", "commit", "rollback"}

Literal(o) ==
    CASE o = "begin" -> "BEGIN" [] o = "commit" -> "COMMIT" [] o = "rollback" -> "ROLLBACK"

\* what a transaction call did so far and, once returned, what it returned.
C17_Issued(c) ==
    /\ c.engine \in {<<>>, <<"prepare">>, <<"prepare", "execute">>}
    /\ c.text = (IF c.engine = <<>> THEN None ELSE Some(Literal(c.op)))
    /\ c.params = <<>>
    /\ "queries" \notin {c.guards[i] : i \in 1..Len(c.guards)}
    /\ c.pc = "done" =>
          CASE c.engine = <<>>           -> c.result = Err(PoisonError)
            [] c.engine = <<"prepare">>  -> c.result = Err("SQL preparation error")
            [] OTHER -> c.result \in {Ok("ok"), Err("SQL execution error")}

C17_TransactionControlLeavesRegistry ==
    /\ [](\A t \in Threads : call[t].op \in TxnOps => C17_Issued(call[t]))
    /\ [][\A t \in Threads :
             (call[t].op \in TxnOps /\ ~Idle(t) /\ Steps(t)) =>
                /\ queries' = queries
                /\ call'[t].engine # call[t].engine
                      => connLock = t /\ queriesLock # t]_vars

\* with every slot of the Registry taken, a begin and a commit went through
\* the engine and returned "ok".
C17_Witness ==
    \E t1, t2 \in Threads :
       /\ Live(queries) = DOMAIN queries.slots
       /\ Returned(t1, "begin")
       /\ call[t1].result = Ok("ok")
       /\ call[t1].engine = <<"prepare", "execute">>
       /\ Returned(t2, "commit")
       /\ call[t2].result = Ok("ok")

(***************************************************************************)
(* C18.  Deadlock freedom: a call that takes both guards takes the guard   *)
(* of the connection first and the guard of the Registry second, and no    *)
(* call waits for the connection guard while it holds the Registry guard;  *)
(* hence in no reachable state are all pending calls blocked, and under    *)
(* fair scheduling every call that was started returns.                    *)
(***************************************************************************)
\* the call of t waits for a guard that another call holds.
Blocked(t) ==
    \/ call[t].pc = "lock_conn" /\ connLock # NoThread
    \/ call[t].pc = "lock_queries" /\ queriesLock # NoThread

LockOrder ==
    \A t \in Threads :
       /\ call[t].guards \in {<<>>, <<"conn">>, <<"queries">>, <<"conn", "queries">>}
       /\ call[t].pc = "lock_conn" => queriesLock # t

NoDeadlock ==
    (\E t \in Threads : Pending(t)) => (\E t \in Threads : Pending(t) /\ ~Blocked(t))

====
